---- MODULE Spec2Model ----
(***************************************************************************)
(* Model of the analysis run of src/app.py (the Streamlit script's         *)
(* "analyze" branch, lines 268-470): plain mode (initial answers, then     *)
(* synthesis) and deep mode (initial answers, round-robin review,          *)
(* revision, then synthesis).                                              *)
(*                                                                         *)
(* Python dicts are modelled as sequences of <<key, value>> pairs in       *)
(* insertion order.  A text is a record [none, s]: none = TRUE is Python's *)
(* None, otherwise s is the string as a sequence of tokens:                *)
(*   "X" the cross mark, "E" the words of the call-error marker that       *)
(*   follow it, "R" the words of the review-error marker, "a" other text.  *)
(***************************************************************************)
EXTENDS Integers, Sequences, FiniteSets, TLC

\* ------------------------------------------------------------------ bounds
\* At most this many API keys are entered in the sidebar.
MaxAgents == 3

\* ------------------------------------------------------------------ texts
None == [none |-> TRUE, s |-> <<>>]
Str(s) == [none |-> FALSE, s |-> s]

\* bool(v) of a str-or-None value
Truthy(v) == ~v.none /\ v.s /= <<>>

\* sub in v, for a str v
Contains(sub, v) ==
    \E i \in 1..(Len(v.s) - Len(sub) + 1) :
        \A j \in 1..Len(sub) : v.s[i + j - 1] = sub[j]

CROSS == <<"X">>
CALL_ERROR_MARK == <<"X", "E">>
REVIEW_ERROR_MARK == <<"X", "R">>

\* f"... {str(e)}" of the three except branches; msg is ": " + str(e)
CallErrorText(msg) == Str(CALL_ERROR_MARK \o msg)
ReviewErrorText(msg) == Str(REVIEW_ERROR_MARK \o msg)

\* ------------------------------------------------------------------ dicts
Keys(d) == [i \in 1..Len(d) |-> d[i][1]]
KeySet(d) == {d[i][1] : i \in 1..Len(d)}
HasKey(d, k) == k \in KeySet(d)
Get(d, k) == d[CHOOSE i \in 1..Len(d) : d[i][1] = k][2]
\* d[k] = v
Put(d, k, v) ==
    IF HasKey(d, k)
    THEN [i \in 1..Len(d) |-> IF d[i][1] = k THEN <<k, v>> ELSE d[i]]
    ELSE Append(d, <<k, v>>)

\* ------------------------------------------------------------------ agents
AI_CONFIG == <<"openai", "gemini", "perplexity", "claude">>
AI_IDS == {AI_CONFIG[i] : i \in 1..Len(AI_CONFIG)}

\* What one call of CALL_FUNCTIONS[ai_id] can do: return a value or raise.
\* The returned values: None (message.content and result.text are optional),
\* ordinary text, text with a cross mark in it, text with the call-error
\* marker in it.  (An empty string is falsy like None in the filters and is
\* ordinary text to the review test.)
ReturnValues == {None, Str(<<"a">>), Str(<<"X">>), Str(<<"X", "E">>)}
ExcMessages == {<<"a">>}
Outcomes ==
    {[raised |-> FALSE, text |-> t, msg |-> <<>>] : t \in ReturnValues}
    \cup {[raised |-> TRUE, text |-> None, msg |-> m] : m \in ExcMessages}

\* ------------------------------------------------------------------ state
VARIABLES
    api_keys,           \* sidebar: ai_id -> TRUE when a non-blank key was entered
    is_deep_mode,       \* sidebar: analysis mode
    user_input,         \* TRUE when user_input.strip() is non-empty
    pc,                 \* position of the run: the stage it is in, or how it ended
    idx,                \* index of the running for loop (as enumerate counts it)
    responses,          \* plain mode: ai_id -> text
    initial_responses,  \* deep mode: ai_id -> text
    valid_initial,      \* deep mode: the initial answers that passed the filter
    reviews,            \* deep mode: author_id -> <<reviewer_id, review text>>
    revised_responses,  \* deep mode: author_id -> text
    valid_responses,    \* what synthesis reads
    consensus,          \* <<text>> once the report was rendered, else <<>>
    error,              \* the message the run ended with, "" when none
    in_flight,          \* the calls made and not yet returned or raised
    calls,              \* every CALL_FUNCTIONS[..] call that ended, in order
    trace               \* the stages entered so far, in order

vars == <<api_keys, is_deep_mode, user_input, pc, idx, responses,
          initial_responses, valid_initial, reviews, revised_responses,
          valid_responses, consensus, error, in_flight, calls, trace>>

\* available_ais = {k: v for k, v in api_keys.items() if v and v.strip()}
\* (api_keys is filled in AI_CONFIG order), and ai_list = its keys
available_ais == SelectSeq(AI_CONFIG, LAMBDA k : api_keys[k])
ai_list == available_ais

\* ------------------------------------------------------------------ decisions
\* mutant: the plain filter keeps every answer
ValidPlainResponse_All(v) == TRUE

\* if v and "<call error mark>" not in v         (plain mode filter)
ValidPlainResponse(v) == Truthy(v) /\ ~Contains(CALL_ERROR_MARK, v)

\* mutant: the initial filter keeps every answer
ValidInitialResponse_All(v) == TRUE

\* if v and "<call error mark>" not in v         (deep mode, initial filter)
ValidInitialResponse(v) == Truthy(v) /\ ~Contains(CALL_ERROR_MARK, v)

\* if v and "<cross>" not in v                   (deep mode, final filter)
ValidRevisedResponse(v) == Truthy(v) /\ ~Contains(CROSS, v)

\* mutant: the precondition lets a single agent through
DeepTooFewAgents_OffByOne(n) == n < 1

\* if len(ai_list) < 2: stop
DeepTooFewAgents(n) == n < 2

\* mutant: a single valid answer still goes to review
DeepDegrades_OnlyEmpty(n) == n < 1

\* if len(valid_initial) < 2: skip review and revision
DeepDegrades(n) == n < 2

\* mutant: every author but the first is reviewed by the first agent
ReviewerIndex_Fixed(i, n) == IF i = 0 THEN 1 ELSE 0

\* mutant: the reviewer is two places on
ReviewerIndex_TwoOn(i, n) == (i + 2) % n

\* reviewer_ids[(i + 1) % len(reviewer_ids)]
ReviewerIndex(i, n) == (i + 1) % n

\* if "<cross>" in review_text: keep the initial answer
ReviewRejected(review_text) == Contains(CROSS, review_text)

\* mutant: the gate never closes
NoValidResponses_Never(n) == n < 0

\* if len(valid_responses) < 1: stop
NoValidResponses(n) == n < 1

\* mutant: the last valid agent synthesizes
SynthesizerIndex_Last(n) == n - 1

\* list(valid_responses.keys())[0]
SynthesizerIndex(n) == 0

\* mutant: a raising synthesis call is tried again
AfterSynthesis_Retry(raised) == IF raised THEN "SYNTHESIS" ELSE "DONE"

\* try: consensus = call(..); st.markdown(consensus)  except: st.error(..)
AfterSynthesis(raised) == IF raised THEN "FAILED" ELSE "DONE"

\* the text an except branch of the initial loops stores
StoredInitial(o) == IF o.raised THEN CallErrorText(o.msg) ELSE o.text

\* mutant: the except branch of the review loop stores nothing
StoredReview_Lost(o) == o.text

\* the text the review loop stores
StoredReview(o) == IF o.raised THEN ReviewErrorText(o.msg) ELSE o.text

\* the text the revision loop stores; initial is valid_initial[author_id]
StoredRevised(o, initial) == IF o.raised THEN initial ELSE o.text

\* a call as it is made: who is called, at which stage, about whose answer,
\* and the answers and reviews its prompt embeds
Request(stage, agent, author, embedded) ==
    [stage |-> stage, agent |-> agent, author |-> author,
     embedded |-> embedded]

\* the record of one call that ended: the request c and how it ended
Call(c, o) ==
    [stage |-> c.stage, agent |-> c.agent, author |-> c.author,
     embedded |-> c.embedded, raised |-> o.raised, ret |-> o.text]

\* mutant: the loop skips the next item
NextIndex_Skip(i) == i + 2

\* mutant: the loop takes the same item again
NextIndex_Stay(i) == i

\* for ... in ...: the next iteration takes the next item
NextIndex(i) == i + 1

\* mutant: the loop is left before its last item
LoopContinues_LeaveEarly(i, n) == i + 2 < n

\* for ... in ...: after item i (counted from 0) of n, another follows
LoopContinues(i, n) == i + 1 < n

\* mutant: the first valid answer is left out of the prompt
ResponseTexts_DropFirst(vr) == Tail(vr)

\* response_texts: one "<name>: <resp>" block per item of valid_responses
ResponseTexts(vr) == [i \in 1..Len(vr) |-> <<vr[i][1], vr[i][2]>>]

\* a call is a blocking statement: the script makes none while one is out
CanCall(inflight) == inflight = {}

\* ------------------------------------------------------------------ Init
\* The state when the "analyze" button is pressed: the sidebar inputs are
\* set, nothing has run.
Init ==
    /\ api_keys \in {f \in [AI_IDS -> BOOLEAN] :
                        Cardinality({k \in AI_IDS : f[k]}) <= MaxAgents}
    /\ is_deep_mode \in BOOLEAN
    /\ user_input \in BOOLEAN
    /\ pc = "INIT"
    /\ idx = 0
    /\ responses = <<>>
    /\ initial_responses = <<>>
    /\ valid_initial = <<>>
    /\ reviews = <<>>
    /\ revised_responses = <<>>
    /\ valid_responses = <<>>
    /\ consensus = <<>>
    /\ error = ""
    /\ in_flight = {}
    /\ calls = <<>>
    /\ trace = <<"INIT">>

Enter(stage) == /\ pc' = stage
                /\ trace' = Append(trace, stage)

\* st.warning / st.error, then st.stop() or the end of the script
Fail(msg) == /\ Enter("FAILED")
             /\ error' = msg

\* ------------------------------------------------------------------ start
\* if not user_input.strip(): st.stop()
StopNoInput ==
    /\ pc = "INIT"
    /\ ~user_input
    /\ Fail("NoInput")
    /\ UNCHANGED <<in_flight, api_keys, is_deep_mode, user_input, idx, responses,
                   initial_responses, valid_initial, reviews,
                   revised_responses, valid_responses, consensus, calls>>

\* if not available_ais: st.stop()
StopNoAgents ==
    /\ pc = "INIT"
    /\ user_input
    /\ available_ais = <<>>
    /\ Fail("NoAgents")
    /\ UNCHANGED <<in_flight, api_keys, is_deep_mode, user_input, idx, responses,
                   initial_responses, valid_initial, reviews,
                   revised_responses, valid_responses, consensus, calls>>

\* deep mode: if len(ai_list) < 2: st.stop()
StopDeepTooFew ==
    /\ pc = "INIT"
    /\ user_input
    /\ available_ais /= <<>>
    /\ is_deep_mode
    /\ DeepTooFewAgents(Len(ai_list))
    /\ Fail("InsufficientAgents")
    /\ UNCHANGED <<in_flight, api_keys, is_deep_mode, user_input, idx, responses,
                   initial_responses, valid_initial, reviews,
                   revised_responses, valid_responses, consensus, calls>>

\* the run reaches the first loop over available_ais
BeginInitial ==
    /\ pc = "INIT"
    /\ user_input
    /\ available_ais /= <<>>
    /\ is_deep_mode => ~DeepTooFewAgents(Len(ai_list))
    /\ Enter("INITIAL")
    /\ idx' = 0
    /\ UNCHANGED <<in_flight, api_keys, is_deep_mode, user_input, responses,
                   initial_responses, valid_initial, reviews,
                   revised_responses, valid_responses, consensus, error,
                   calls>>

\* ------------------------------------------------------------------ initial
\* plain mode: one iteration of the loop over available_ais; after the last
\* one, the valid_responses filter
PlainInitial(o) ==
    /\ pc = "INITIAL"
    /\ ~is_deep_mode
    /\ idx < Len(available_ais)
    /\ \E c \in in_flight :
         calls' = Append(calls, Call(c, o))
    /\ in_flight' = {}
    /\ LET ai_id == available_ais[idx + 1]
           resp == Put(responses, ai_id, StoredInitial(o))
       IN /\ responses' = resp
          /\ IF LoopContinues(idx, Len(available_ais))
             THEN /\ idx' = NextIndex(idx)
                  /\ UNCHANGED <<pc, trace, valid_responses>>
             ELSE /\ idx' = 0
                  /\ valid_responses' =
                        SelectSeq(resp, LAMBDA kv : ValidPlainResponse(kv[2]))
                  /\ Enter("SYNTHESIS")
    /\ UNCHANGED <<api_keys, is_deep_mode, user_input, initial_responses,
                   valid_initial, reviews, revised_responses, consensus,
                   error>>

\* deep mode: one iteration of the loop over available_ais; after the last
\* one, the valid_initial filter and the choice between review and synthesis
DeepInitial(o) ==
    /\ pc = "INITIAL"
    /\ is_deep_mode
    /\ idx < Len(available_ais)
    /\ \E c \in in_flight :
         calls' = Append(calls, Call(c, o))
    /\ in_flight' = {}
    /\ LET ai_id == available_ais[idx + 1]
           resp == Put(initial_responses, ai_id, StoredInitial(o))
           valid == SelectSeq(resp, LAMBDA kv : ValidInitialResponse(kv[2]))
       IN /\ initial_responses' = resp
          /\ IF LoopContinues(idx, Len(available_ais))
             THEN /\ idx' = NextIndex(idx)
                  /\ UNCHANGED <<pc, trace, valid_initial, valid_responses>>
             ELSE /\ idx' = 0
                  /\ valid_initial' = valid
                  /\ IF DeepDegrades(Len(valid))
                     THEN /\ valid_responses' = valid
                          /\ Enter("SYNTHESIS")
                     ELSE /\ UNCHANGED valid_responses
                          /\ Enter("REVIEW")
    /\ UNCHANGED <<api_keys, is_deep_mode, user_input, responses, reviews,
                   revised_responses, consensus, error>>

\* ------------------------------------------------------------------ review
reviewer_ids == Keys(valid_initial)

\* one iteration of the loop over enumerate(reviewer_ids); after the last
\* one the run goes on to the revision loop
Review(o) ==
    /\ pc = "REVIEW"
    /\ idx < Len(reviewer_ids)
    /\ LET i == idx
           author_id == reviewer_ids[i + 1]
           reviewer_id == reviewer_ids[ReviewerIndex(i, Len(reviewer_ids)) + 1]
       IN IF author_id = reviewer_id
          THEN /\ in_flight = {}
               /\ UNCHANGED <<reviews, calls, in_flight>>
          ELSE /\ reviews' = Put(reviews, author_id,
                                 <<reviewer_id, StoredReview(o)>>)
               /\ \E c \in in_flight :
                    calls' = Append(calls, Call(c, o))
               /\ in_flight' = {}
    /\ IF LoopContinues(idx, Len(reviewer_ids))
       THEN /\ idx' = NextIndex(idx)
            /\ UNCHANGED <<pc, trace>>
       ELSE /\ idx' = 0
            /\ Enter("REVISE")
    /\ UNCHANGED <<api_keys, is_deep_mode, user_input, responses,
                   initial_responses, valid_initial, revised_responses,
                   valid_responses, consensus, error>>

\* ------------------------------------------------------------------ revise
\* the end of one iteration of the loop over valid_initial, with rev the
\* new revised_responses; after the last one, the final filter
EndRevise(rev) ==
    /\ revised_responses' = rev
    /\ IF LoopContinues(idx, Len(valid_initial))
       THEN /\ idx' = NextIndex(idx)
            /\ UNCHANGED <<pc, trace, valid_responses>>
       ELSE /\ idx' = 0
            /\ valid_responses' =
                  SelectSeq(rev, LAMBDA kv : ValidRevisedResponse(kv[2]))
            /\ Enter("SYNTHESIS")

\* the author has no review, or its review text holds the cross mark: the
\* initial answer is carried forward without a call
ReviseCarry ==
    /\ pc = "REVISE"
    /\ idx < Len(valid_initial)
    /\ LET author_id == Keys(valid_initial)[idx + 1]
       IN /\ \/ ~HasKey(reviews, author_id)
             \/ /\ HasKey(reviews, author_id)
                /\ ~Get(reviews, author_id)[2].none
                /\ ReviewRejected(Get(reviews, author_id)[2])
          /\ EndRevise(Put(revised_responses, author_id,
                           Get(valid_initial, author_id)))
    /\ UNCHANGED <<in_flight, api_keys, is_deep_mode, user_input, responses,
                   initial_responses, valid_initial, reviews, consensus,
                   error, calls>>

\* the review text is None: the "in" test raises TypeError, which nothing
\* catches; the script run ends with the exception
ReviseTypeError ==
    /\ pc = "REVISE"
    /\ idx < Len(valid_initial)
    /\ LET author_id == Keys(valid_initial)[idx + 1]
       IN /\ HasKey(reviews, author_id)
          /\ Get(reviews, author_id)[2].none
    /\ Enter("ABORTED")
    /\ error' = "TypeError"
    /\ UNCHANGED <<in_flight, api_keys, is_deep_mode, user_input, idx, responses,
                   initial_responses, valid_initial, reviews,
                   revised_responses, valid_responses, consensus, calls>>

\* the author is asked to revise; a raising call keeps the initial answer
Revise(o) ==
    /\ pc = "REVISE"
    /\ idx < Len(valid_initial)
    /\ LET author_id == Keys(valid_initial)[idx + 1]
       IN /\ HasKey(reviews, author_id)
          /\ ~Get(reviews, author_id)[2].none
          /\ ~ReviewRejected(Get(reviews, author_id)[2])
          /\ \E c \in in_flight :
               calls' = Append(calls, Call(c, o))
          /\ in_flight' = {}
          /\ EndRevise(Put(revised_responses, author_id,
                           StoredRevised(o, Get(valid_initial, author_id))))
    /\ UNCHANGED <<api_keys, is_deep_mode, user_input, responses,
                   initial_responses, valid_initial, reviews, consensus,
                   error>>

\* ------------------------------------------------------------------ synthesis
\* if len(valid_responses) < 1: st.stop()
SynthesisNoValid ==
    /\ pc = "SYNTHESIS"
    /\ NoValidResponses(Len(valid_responses))
    /\ Fail("NoValidArtifacts")
    /\ UNCHANGED <<in_flight, api_keys, is_deep_mode, user_input, idx, responses,
                   initial_responses, valid_initial, reviews,
                   revised_responses, valid_responses, consensus, calls>>

\* the synthesis call by list(valid_responses.keys())[0]; indexing an empty
\* list raises IndexError outside the try
Synthesis(o) ==
    /\ pc = "SYNTHESIS"
    /\ ~NoValidResponses(Len(valid_responses))
    /\ IF SynthesizerIndex(Len(valid_responses)) >= Len(valid_responses)
       THEN /\ in_flight = {}
            /\ Enter("ABORTED")
            /\ error' = "IndexError"
            /\ UNCHANGED <<calls, consensus, in_flight>>
       ELSE /\ \E c \in in_flight :
                 calls' = Append(calls, Call(c, o))
            /\ in_flight' = {}
            /\ Enter(AfterSynthesis(o.raised))
               /\ IF o.raised
                  THEN /\ error' = "SynthesisError"
                       /\ UNCHANGED consensus
                  ELSE /\ consensus' = <<o.text>>
                       /\ UNCHANGED error
    /\ UNCHANGED <<api_keys, is_deep_mode, user_input, idx, responses,
                   initial_responses, valid_initial, reviews,
                   revised_responses, valid_responses>>

\* ------------------------------------------------------------------ calls
\* The call the script makes at its position, as a set: empty when the
\* statement it is at is no call.
PendingCall ==
    IF pc = "INITIAL" /\ idx < Len(available_ais)
    THEN {Request("initial", available_ais[idx + 1],
                  available_ais[idx + 1], <<>>)}
    ELSE IF pc = "REVIEW" /\ idx < Len(reviewer_ids)
    THEN LET author_id == reviewer_ids[idx + 1]
             reviewer_id ==
                 reviewer_ids[ReviewerIndex(idx, Len(reviewer_ids)) + 1]
         IN IF author_id = reviewer_id
            THEN {}
            ELSE {Request("review", reviewer_id, author_id,
                          <<<<author_id, Get(valid_initial, author_id)>>>>)}
    ELSE IF pc = "REVISE" /\ idx < Len(valid_initial)
    THEN LET author_id == Keys(valid_initial)[idx + 1]
         IN IF /\ HasKey(reviews, author_id)
               /\ ~Get(reviews, author_id)[2].none
               /\ ~ReviewRejected(Get(reviews, author_id)[2])
            THEN {Request("revise", author_id, author_id,
                          <<<<author_id, Get(valid_initial, author_id)>>,
                            Get(reviews, author_id)>>)}
            ELSE {}
    ELSE IF /\ pc = "SYNTHESIS"
            /\ ~NoValidResponses(Len(valid_responses))
            /\ SynthesizerIndex(Len(valid_responses)) < Len(valid_responses)
    THEN LET synthesizer_id ==
                 Keys(valid_responses)
                     [SynthesizerIndex(Len(valid_responses)) + 1]
         IN {Request("synthesis", synthesizer_id, synthesizer_id,
                     ResponseTexts(valid_responses))}
    ELSE {}

\* CALL_FUNCTIONS[..](api_key, prompt) is entered: the call is out until it
\* returns or raises
Dispatch ==
    /\ CanCall(in_flight)
    /\ PendingCall /= {}
    /\ in_flight' = in_flight \cup PendingCall
    /\ UNCHANGED <<api_keys, is_deep_mode, user_input, pc, idx, responses,
                   initial_responses, valid_initial, reviews,
                   revised_responses, valid_responses, consensus, error,
                   calls, trace>>

\* ------------------------------------------------------------------ spec
\* the steps the script takes by itself
ScriptStep ==
    \/ StopNoInput
    \/ StopNoAgents
    \/ StopDeepTooFew
    \/ BeginInitial
    \/ Dispatch
    \/ ReviseCarry
    \/ ReviseTypeError
    \/ SynthesisNoValid

Next ==
    \/ Dispatch
    \/ StopNoInput
    \/ StopNoAgents
    \/ StopDeepTooFew
    \/ BeginInitial
    \/ \E o \in Outcomes : PlainInitial(o)
    \/ \E o \in Outcomes : DeepInitial(o)
    \/ \E o \in Outcomes : Review(o)
    \/ ReviseCarry
    \/ ReviseTypeError
    \/ \E o \in Outcomes : Revise(o)
    \/ SynthesisNoValid
    \/ \E o \in Outcomes : Synthesis(o)

Spec == Init /\ [][Next]_vars

\* Every call returns or raises, and the script runs on after it.
FairSpec == Spec /\ WF_vars(Next)

\* The script runs on by itself; whether a call ever returns or raises is
\* up to the remote service.
StallSpec == Spec /\ WF_vars(ScriptStep)

\* ------------------------------------------------------------------ helpers
Elems(seq) == {seq[i] : i \in 1..Len(seq)}
Entered(stage) == \E i \in 1..Len(trace) : trace[i] = stage
CallsAt(stage) == SelectSeq(calls, LAMBDA c : c.stage = stage)
Called(stage, agent) ==
    \E i \in 1..Len(calls) : calls[i].stage = stage /\ calls[i].agent = agent
Raised(stage, agent) ==
    \E i \in 1..Len(calls) :
        calls[i].stage = stage /\ calls[i].agent = agent /\ calls[i].raised
ReturnedText(stage, agent) ==
    \E i \in 1..Len(calls) :
        /\ calls[i].stage = stage /\ calls[i].agent = agent
        /\ ~calls[i].raised /\ Truthy(calls[i].ret)
\* the review call about author's answer
ReviewRaised(author) ==
    \E i \in 1..Len(calls) :
        calls[i].stage = "review" /\ calls[i].author = author /\ calls[i].raised
ReviewReturnedText(author) ==
    \E i \in 1..Len(calls) :
        /\ calls[i].stage = "review" /\ calls[i].author = author
        /\ ~calls[i].raised /\ Truthy(calls[i].ret)

InitialDone == Entered("INITIAL") /\ pc /= "INITIAL"
ReviewDone == Entered("REVIEW") /\ pc /= "REVIEW"
ReviseDone == Entered("REVISE") /\ pc \notin {"REVISE", "ABORTED"}
Terminal == pc \in {"DONE", "FAILED", "ABORTED"}

\* the output of the initial stage and the agents it classifies Ok
InitialOutput == IF is_deep_mode THEN initial_responses ELSE responses
InitialOk == IF is_deep_mode THEN KeySet(valid_initial)
                             ELSE KeySet(valid_responses)

\* ------------------------------------------------------------------ claims

\* C1: once the initial stage is over (either mode) its output has exactly
\* one entry per configured agent, in order; an agent whose call raised is
\* classified Failed, and an agent whose call returned text is classified
\* Ok whatever the text is.
C1_InitialClassifiedByOutcome ==
    InitialDone =>
        /\ Keys(InitialOutput) = available_ais
        /\ Len(CallsAt("initial")) = Len(available_ais)
        /\ \A a \in Elems(available_ais) :
              /\ Raised("initial", a) => a \notin InitialOk
              /\ ReturnedText("initial", a) => a \in InitialOk

\* C2: in the review stage over n >= 2 valid authors, the i-th author gets
\* one review assignment, recorded in the author's order, its reviewer is
\* the next author in cyclic order (authors[(i+1) mod n], counting from 0),
\* never the author itself, and the review call is made by that reviewer;
\* once the stage is over every author has its assignment.  With fewer than
\* 2 valid authors there is no assignment and no review call.
C2_RoundRobinPairing ==
    LET authors == Keys(valid_initial)
        n == Len(authors)
    IN /\ n < 2 => reviews = <<>> /\ CallsAt("review") = <<>>
       /\ Len(reviews) <= n
       /\ Len(CallsAt("review")) = Len(reviews)
       /\ \A i \in 1..Len(reviews) :
             /\ reviews[i][1] = authors[i]
             /\ reviews[i][2][1] = authors[(i % n) + 1]
             /\ reviews[i][2][1] /= reviews[i][1]
             /\ CallsAt("review")[i].agent = reviews[i][2][1]
             /\ CallsAt("review")[i].author = reviews[i][1]
       /\ ReviewDone => Len(reviews) = n

\* C2 witness: the review stage is over for three valid authors.
C2_Witness ==
    /\ pc = "REVISE"
    /\ Len(valid_initial) = 3
    /\ Len(reviews) = 3

\* C3: whenever a synthesis call is made, the agent called is the first
\* agent, in the configured order, among those holding a valid final
\* answer; when every configured agent holds one it is the first
\* configured agent.
C3_SynthesizerIsFirstValid ==
    \A i \in 1..Len(calls) :
        calls[i].stage = "synthesis" =>
            LET valid == KeySet(valid_responses)
                first == CHOOSE j \in 1..Len(available_ais) :
                            /\ available_ais[j] \in valid
                            /\ \A k \in 1..(j - 1) : available_ais[k] \notin valid
            IN /\ valid /= {}
               /\ valid \subseteq Elems(available_ais)
               /\ calls[i].agent = available_ais[first]
               /\ valid = Elems(available_ais)
                    => calls[i].agent = available_ais[1]

\* C3 witness: a synthesis call was made while the first configured agent
\* holds no valid final answer and two later agents do.
C3_Witness ==
    /\ CallsAt("synthesis") /= <<>>
    /\ available_ais[1] \notin KeySet(valid_responses)
    /\ Len(valid_responses) = 2

\* C4: deep mode, exactly one valid initial answer: the run never enters
\* REVIEW or REVISE, makes no review and no revision call and produces no
\* review or revision output; synthesis reads that single answer and is
\* called on its author; the run ends DONE when the synthesis call returns
\* and FAILED only when that call raises.
C4_DeepDegradesToSynthesis ==
    (is_deep_mode /\ InitialDone /\ Len(valid_initial) = 1) =>
        /\ ~Entered("REVIEW") /\ ~Entered("REVISE")
        /\ CallsAt("review") = <<>> /\ CallsAt("revise") = <<>>
        /\ reviews = <<>> /\ revised_responses = <<>>
        /\ valid_responses = valid_initial
        /\ \A i \in 1..Len(calls) :
              calls[i].stage = "synthesis" =>
                 /\ calls[i].agent = valid_initial[1][1]
                 /\ ~calls[i].raised => pc = "DONE" /\ consensus /= <<>>
        /\ pc \in {"SYNTHESIS", "DONE", "FAILED"}
        /\ pc = "FAILED" =>
              /\ error = "SynthesisError"
              /\ calls[Len(calls)].stage = "synthesis"
              /\ calls[Len(calls)].raised

\* C4 witness: deep mode with three agents of which one answered validly,
\* ended DONE.
C4_Witness ==
    /\ is_deep_mode
    /\ Len(available_ais) = 3
    /\ Len(valid_initial) = 1
    /\ pc = "DONE"

\* C5: deep mode with >= 2 valid initial answers, once the revision stage
\* is over: an author whose review call raised got no revision call and its
\* revised answer is its initial answer unchanged; an author whose review
\* call returned text did get a revision call.
C5_RevisionFollowsReviewOutcome ==
    (is_deep_mode /\ Len(valid_initial) >= 2 /\ ReviseDone) =>
        \A a \in KeySet(valid_initial) :
            /\ ReviewRaised(a) =>
                  /\ ~Called("revise", a)
                  /\ HasKey(revised_responses, a)
                  /\ Get(revised_responses, a) = Get(valid_initial, a)
            /\ ReviewReturnedText(a) => Called("revise", a)

\* C6: deep mode with >= 2 valid initial answers, when synthesis starts:
\* the authors holding a valid final answer are exactly the authors that
\* held a valid initial answer; in particular an answer carried forward
\* (no revision call, or a revision call that raised) is classified Ok.
C6_ValidAuthorsSurvive ==
    (is_deep_mode /\ Len(valid_initial) >= 2 /\ Entered("SYNTHESIS")) =>
        /\ KeySet(valid_responses) = KeySet(valid_initial)
        /\ \A a \in KeySet(valid_initial) :
              (~Called("revise", a) \/ Raised("revise", a))
                 => a \in KeySet(valid_responses)

\* C7: with no valid final answer, no synthesis call is made and no report
\* is produced, and the run, once past the synthesis gate, has ended FAILED
\* for want of valid answers.
C7_NoValidAnswersFails ==
    valid_responses = <<>> =>
        /\ CallsAt("synthesis") = <<>>
        /\ consensus = <<>>
        /\ pc /= "DONE"
        /\ (Entered("SYNTHESIS") /\ pc /= "SYNTHESIS") =>
              pc = "FAILED" /\ error = "NoValidArtifacts"

\* C7 witness: every initial call of a three-agent run failed and the run
\* ended at the synthesis gate.
C7_Witness ==
    /\ pc = "FAILED"
    /\ error = "NoValidArtifacts"
    /\ Len(CallsAt("initial")) = 3
    /\ \A i \in 1..Len(calls) : calls[i].raised

\* C8: at most one synthesis call is made and it is the last call of the
\* run; if it raised, the run has ended FAILED with the error and without a
\* report; if it returned, the run has ended DONE with the returned report.
C8_SingleSynthesisCall ==
    /\ Len(CallsAt("synthesis")) <= 1
    /\ \A i \in 1..Len(calls) :
          calls[i].stage = "synthesis" =>
             /\ i = Len(calls)
             /\ calls[i].raised =>
                   pc = "FAILED" /\ error = "SynthesisError" /\ consensus = <<>>
             /\ ~calls[i].raised =>
                   pc = "DONE" /\ error = "" /\ consensus = <<calls[i].ret>>
    /\ pc = "DONE" => Len(CallsAt("synthesis")) = 1

\* C8 witness: the synthesis call raised while another agent held a valid
\* final answer too.
C8_Witness ==
    /\ Len(valid_responses) >= 2
    /\ CallsAt("synthesis") /= <<>>
    /\ calls[Len(calls)].raised
    /\ pc = "FAILED"

\* C9: with no configured agent, or with fewer than 2 in deep mode, no
\* call is ever made and the run, once started, has ended FAILED.
C9_AgentCountPrecondition ==
    (Len(available_ais) = 0 \/ (is_deep_mode /\ Len(available_ais) < 2)) =>
        /\ calls = <<>>
        /\ pc \in {"INIT", "FAILED"}
        /\ ~Entered("INITIAL")

\* C9 witness: deep mode with a single configured agent ended FAILED.
C9_Witness ==
    /\ is_deep_mode
    /\ Len(available_ais) = 1
    /\ pc = "FAILED"
    /\ error = "InsufficientAgents"

\* The stage paths of the state machine: plain (or deep, degraded) and deep.
PlainPath == <<"INIT", "INITIAL", "SYNTHESIS", "DONE">>
DeepPath == <<"INIT", "INITIAL", "REVIEW", "REVISE", "SYNTHESIS", "DONE">>
IsPrefix(t, p) == Len(t) <= Len(p) /\ \A i \in 1..Len(t) : t[i] = p[i]
\* t runs along p, or left it for FAILED
Follows(t, p) ==
    \/ IsPrefix(t, p)
    \/ /\ t /= <<>>
       /\ t[Len(t)] = "FAILED"
       /\ IsPrefix(SubSeq(t, 1, Len(t) - 1), p)
       /\ Len(t) <= Len(p)

\* C10: the stages a run has entered follow INIT -> INITIAL -> SYNTHESIS
\* -> DONE (plain, or deep degraded) or INIT -> INITIAL -> REVIEW -> REVISE
\* -> SYNTHESIS -> DONE (deep only), no stage twice, and the only other way
\* a run ends is the FAILED terminal state.
C10_StagePathsEndDoneOrFailed ==
    /\ pc = trace[Len(trace)]
    /\ \/ Follows(trace, PlainPath)
       \/ is_deep_mode /\ Follows(trace, DeepPath)

\* The run ends: it reaches a position with no further step.
Terminates == <>(pc \in {"DONE", "FAILED", "ABORTED"})

\* The final answers of the run, by path: plain mode reads the initial
\* answers, degraded deep mode the deep initial answers, deep mode the
\* revised answers.
FinalArtifacts ==
    IF ~is_deep_mode THEN responses
    ELSE IF Entered("REVISE") THEN revised_responses
    ELSE initial_responses

\* The status the run gives a final answer on that path.
FinalOk(v) ==
    IF ~is_deep_mode THEN ValidPlainResponse(v)
    ELSE IF Entered("REVISE") THEN ValidRevisedResponse(v)
    ELSE ValidInitialResponse(v)

\* C11: the answers the synthesis prompt embeds are exactly the final
\* answers with status Ok, each once, in the agents' order, with its
\* author: no answer with status Failed (in particular no error text of a
\* call that raised, and no empty answer) is embedded, and no Ok answer is
\* left out.
C11_PromptEmbedsExactlyValid ==
    \A c \in in_flight \cup Elems(calls) :
        c.stage = "synthesis" =>
            /\ Len(c.embedded) = Cardinality(Elems(c.embedded))
            /\ Elems(c.embedded) =
                  {kv \in Elems(FinalArtifacts) : FinalOk(kv[2])}
            /\ \A kv \in Elems(c.embedded) :
                  /\ Truthy(kv[2])
                  /\ ~Contains(CALL_ERROR_MARK, kv[2])
                  /\ ~Raised("initial", kv[1])
            /\ \A i, j \in 1..Len(c.embedded) :
                  i < j =>
                     \E k, l \in 1..Len(available_ais) :
                        /\ k < l
                        /\ available_ais[k] = c.embedded[i][1]
                        /\ available_ais[l] = c.embedded[j][1]

\* C11 witness: a deep run whose synthesis call was made with two valid
\* final answers while a third author's revised answer was dropped.
C11_Witness ==
    /\ is_deep_mode
    /\ Len(revised_responses) = 3
    /\ \E i \in 1..Len(calls) :
          calls[i].stage = "synthesis" /\ Len(calls[i].embedded) = 2

\* the calls made so far: ended or still out
Dispatched == in_flight \cup Elems(calls)
StageRank(stage) ==
    CASE stage = "initial" -> 1
      [] stage = "review" -> 2
      [] stage = "revise" -> 3
      [] stage = "synthesis" -> 4

\* C12: stages are strictly sequential.  The calls end in stage order and
\* a call still out belongs to the latest stage; when a review call is made
\* every initial call has ended; when a revision call is made every review
\* call has ended; when the synthesis call is made every initial call has
\* ended and, in deep mode past the degrade test, every author's revision
\* has ended (by a call or by carrying the answer forward).
C12_StagesJoinBeforeNext ==
    /\ \A i, j \in 1..Len(calls) :
          i < j => StageRank(calls[i].stage) <= StageRank(calls[j].stage)
    /\ \A c \in in_flight :
          \A i \in 1..Len(calls) :
             StageRank(calls[i].stage) <= StageRank(c.stage)
    /\ \A c \in Dispatched :
          /\ c.stage /= "initial" =>
                /\ Len(CallsAt("initial")) = Len(available_ais)
                /\ Len(InitialOutput) = Len(available_ais)
          /\ c.stage = "revise" =>
                /\ Len(CallsAt("review")) = Len(valid_initial)
                /\ Len(reviews) = Len(valid_initial)
          /\ (c.stage = "synthesis" /\ is_deep_mode
                /\ Len(valid_initial) >= 2) =>
                /\ Len(CallsAt("review")) = Len(valid_initial)
                /\ Len(revised_responses) = Len(valid_initial)
                /\ \A d \in in_flight : d.stage = "synthesis"

\* C12 witness: the synthesis call of a deep run is out after three review
\* calls and at least two revision calls ended.
C12_Witness ==
    /\ is_deep_mode
    /\ \E c \in in_flight : c.stage = "synthesis"
    /\ Len(CallsAt("review")) = 3
    /\ Len(CallsAt("revise")) >= 2

\* C13: deep mode, review stage over n >= 2 valid authors, once the stage
\* is over: every valid author has exactly one review record and exactly
\* one review call was made about its answer, by the reviewer the record
\* names; the record holds what that call returned, or the review-error
\* text when that call raised, whatever the other review calls did.
C13_OneReviewRecordPerAuthor ==
    (is_deep_mode /\ Len(valid_initial) >= 2 /\ ReviewDone) =>
        \A a \in KeySet(valid_initial) :
            /\ Cardinality({i \in 1..Len(reviews) : reviews[i][1] = a}) = 1
            /\ Cardinality({i \in 1..Len(calls) :
                  calls[i].stage = "review" /\ calls[i].author = a}) = 1
            /\ \A i \in 1..Len(calls) :
                  (calls[i].stage = "review" /\ calls[i].author = a) =>
                     /\ Get(reviews, a)[1] = calls[i].agent
                     /\ calls[i].raised =>
                           /\ ~Get(reviews, a)[2].none
                           /\ Contains(REVIEW_ERROR_MARK, Get(reviews, a)[2])
                     /\ ~calls[i].raised =>
                           Get(reviews, a)[2] = calls[i].ret

\* C13 witness: three authors were reviewed; the first review call raised
\* and the two after it returned text.
C13_Witness ==
    /\ pc = "REVISE"
    /\ Len(reviews) = 3
    /\ CallsAt("review")[1].raised
    /\ ~CallsAt("review")[2].raised /\ Truthy(CallsAt("review")[2].ret)
    /\ ~CallsAt("review")[3].raised /\ Truthy(CallsAt("review")[3].ret)

\* C14: every agent called after the initial stage (as reviewer, reviser
\* or synthesizer) holds a valid initial answer: its initial call did not
\* raise and its answer passed the initial filter; and every author and
\* reviewer of a review record is such an agent.
C14_OnlyValidAgentsCalledAgain ==
    /\ \A c \in Dispatched :
          c.stage /= "initial" =>
             /\ c.agent \in InitialOk
             /\ c.author \in InitialOk
             /\ ~Raised("initial", c.agent)
             /\ ReturnedText("initial", c.agent)
    /\ \A i \in 1..Len(reviews) :
          /\ reviews[i][1] \in KeySet(valid_initial)
          /\ reviews[i][2][1] \in KeySet(valid_initial)
          /\ ~Raised("initial", reviews[i][1])
          /\ ~Raised("initial", reviews[i][2][1])

\* C14 witness: a deep run over three agents, the first of which failed
\* its initial call, went through review and revision calls to the end.
C14_Witness ==
    /\ is_deep_mode
    /\ Len(available_ais) = 3
    /\ Raised("initial", available_ais[1])
    /\ Len(CallsAt("review")) = 2
    /\ Len(CallsAt("revise")) = 2
    /\ pc = "DONE"

C16_StalledCallIsEnded == (in_flight /= {}) ~> (in_flight = {})

\* the number of calls made (ended or out) to agent at stage
TimesCalled(stage, agent) ==
    Cardinality({i \in 1..Len(calls) :
                    calls[i].stage = stage /\ calls[i].agent = agent})
    + Cardinality({c \in in_flight : c.stage = stage /\ c.agent = agent})

\* a dict keeps its entries: what is written stays, at most one is added
KeepsEntries(d, e) == IsPrefix(d, e) /\ Len(e) <= Len(d) + 1
DistinctKeys(d) == Cardinality(KeySet(d)) = Len(d)

\* C17: no call is retried and no stage answer is written twice.  Every
\* agent is called at most once for the initial stage, at most once as
\* reviser and at most once as synthesizer; every stage mapping has one
\* entry per key, and a step of the run never changes or removes an entry
\* of a stage mapping: it only adds one.
C17_NoRetryNoRewrite ==
    /\ [](/\ \A a \in AI_IDS :
                /\ TimesCalled("initial", a) <= 1
                /\ TimesCalled("revise", a) <= 1
                /\ TimesCalled("synthesis", a) <= 1
          /\ DistinctKeys(responses)
          /\ DistinctKeys(initial_responses)
          /\ DistinctKeys(reviews)
          /\ DistinctKeys(revised_responses))
    /\ [][/\ KeepsEntries(responses, responses')
          /\ KeepsEntries(initial_responses, initial_responses')
          /\ KeepsEntries(reviews, reviews')
          /\ KeepsEntries(revised_responses, revised_responses')]_vars

\* C17 witness: a deep run over three agents ended after every agent was
\* called for an initial answer and as reviser, and one as synthesizer.
C17_Witness ==
    /\ is_deep_mode
    /\ pc = "DONE"
    /\ Len(CallsAt("initial")) = 3
    /\ Len(CallsAt("revise")) = 3
    /\ Len(revised_responses) = 3

\* the calls made at stage, ended or out, counted
CallCount(stage) ==
    Len(CallsAt(stage)) + Cardinality({c \in in_flight : c.stage = stage})

\* C18: a plain run never enters REVIEW or REVISE and writes no review and
\* no revised answer.  Its calls are initial calls, at most one per
\* configured agent and none to another agent, exactly one per configured
\* agent once the initial stage is over, then at most one synthesis call,
\* made after all of them; the answers that call embeds are the initial
\* answers that are non-empty and carry no call-error mark, in order.
C18_PlainSkipsReviewAndRevise ==
    ~is_deep_mode =>
        /\ ~Entered("REVIEW") /\ ~Entered("REVISE")
        /\ reviews = <<>> /\ revised_responses = <<>>
        /\ \A c \in Dispatched : c.stage \in {"initial", "synthesis"}
        /\ \A a \in AI_IDS :
              TimesCalled("initial", a) <=
                  (IF a \in Elems(available_ais) THEN 1 ELSE 0)
        /\ InitialDone =>
              /\ Len(CallsAt("initial")) = Len(available_ais)
              /\ \A a \in Elems(available_ais) : Called("initial", a)
        /\ CallCount("synthesis") <= 1
        /\ \A c \in Dispatched :
              c.stage = "synthesis" =>
                 /\ InitialDone
                 /\ c.embedded =
                       SelectSeq(responses,
                                 LAMBDA kv : /\ Truthy(kv[2])
                                             /\ ~Contains(CALL_ERROR_MARK,
                                                          kv[2]))

\* C18 witness: a plain run over three agents ended after a synthesis call
\* made with two answers, the third agent's call having raised.
C18_Witness ==
    /\ ~is_deep_mode
    /\ pc = "DONE"
    /\ Len(CallsAt("initial")) = 3
    /\ \E a \in AI_IDS : Raised("initial", a)
    /\ \E i \in 1..Len(calls) :
          calls[i].stage = "synthesis" /\ Len(calls[i].embedded) = 2

\* a call succeeded: it returned, and returned a non-empty text
Succeeded(raised, text) == ~raised /\ Truthy(text)

\* the status the initial filter of the run's mode gives the stored text of
\* a call that ended with outcome o
InitialVerdict(o) ==
    IF is_deep_mode THEN ValidInitialResponse(StoredInitial(o))
                    ELSE ValidPlainResponse(StoredInitial(o))

\* C19: the classification of the initial stage is determined by the
\* success or failure of the calls: had an initial call ended with any
\* other outcome of the same success or failure, its agent would be
\* classified as it is in this run.
C19_ClassificationFollowsSuccess ==
    InitialDone =>
        \A i \in 1..Len(calls) :
            calls[i].stage = "initial" =>
                \A o \in Outcomes :
                    Succeeded(o.raised, o.text)
                        = Succeeded(calls[i].raised, calls[i].ret)
                    => (InitialVerdict(o) <=> calls[i].agent \in InitialOk)

\* C20: in a deep run with two valid initial answers or more, the review
\* calls pair authors and reviewers one to one inside the valid set: every
\* review call has a valid author and a valid reviewer, different agents; no
\* agent is reviewer twice and no author is reviewed twice; once the review
\* round is over every valid agent has been reviewer exactly once and the
\* review calls are as many as the valid agents.
C20_ReviewersAreABijection ==
    (is_deep_mode /\ Entered("REVIEW")) =>
        /\ Len(valid_initial) >= 2
        /\ \A c \in Dispatched :
              c.stage = "review" =>
                 /\ c.agent \in KeySet(valid_initial)
                 /\ c.author \in KeySet(valid_initial)
                 /\ c.agent /= c.author
        /\ \A a \in AI_IDS :
              /\ TimesCalled("review", a) <= 1
              /\ Cardinality({i \in 1..Len(calls) :
                                 /\ calls[i].stage = "review"
                                 /\ calls[i].author = a})
                 + Cardinality({c \in in_flight :
                                   c.stage = "review" /\ c.author = a}) <= 1
        /\ ReviewDone =>
              /\ \A a \in KeySet(valid_initial) : Called("review", a)
              /\ Len(CallsAt("review")) = Len(valid_initial)

\* C20 witness: a deep run over three agents of which two hold a valid
\* initial answer has ended its review round with two review calls.
C20_Witness ==
    /\ is_deep_mode
    /\ pc = "REVISE"
    /\ Len(initial_responses) = 3
    /\ Len(valid_initial) = 2
    /\ Len(CallsAt("review")) = 2

====
